---- MODULE Spec2Model ----
(***************************************************************************)
(* Model of email_cleaner.py: the configuration object                     *)
(* (EmailCleanerConfig), the quoted-text normalizer                        *)
(* (EmailCleaner.clean_quoted_email) and the batch driver                  *)
(* (EmailCleaner.process_all_files).                                       *)
(*                                                                         *)
(* A text is a sequence of characters; a character is a one-character      *)
(* string.  Characters outside ASCII are written by code point:            *)
(*   "U+3002" ideographic full stop      "U+3000" full-width space         *)
(*   "U+300D" right corner bracket       "U+3001" ideographic comma        *)
(***************************************************************************)
EXTENDS Integers, Sequences, FiniteSets, TLC

VARIABLES
    configFile,      \* the configuration file on disk: whether it exists, its keyword list
    config,          \* EmailCleanerConfig.config: loaded or not, list, whether get raises
    kwResult,        \* the value the last get_keywords call returned, if any
    inputs,          \* the texts clean_quoted_email is called with, in order
    outs,            \* one record per finished clean_quoted_email call
    pc,              \* process_all_files: position in the method
    inputDir,        \* input directory: name of each .txt file -> its text
    outputDir,       \* output directory: name -> written text
    txt_files,       \* process_all_files: the discovered file names
    attempted,       \* names handed to process_single_file, in call order
    succeeded,       \* names for which process_single_file returned True
    processed_count, \* EmailCleaner.processed_count
    error_count,     \* EmailCleaner.error_count
    confirmed,       \* whether confirm_deletion returned True
    deleted,         \* names unlinked by delete_original_files
    delIdx           \* delete_original_files: index of the next name

vars == <<configFile, config, kwResult, inputs, outs, pc, inputDir, outputDir,
          txt_files, attempted, succeeded, processed_count, error_count,
          confirmed, deleted, delIdx>>

cfgVars == <<configFile, config, kwResult>>
cleanVars == <<inputs, outs>>
batchVars == <<pc, inputDir, outputDir, txt_files, attempted, succeeded,
               processed_count, error_count, confirmed, deleted, delIdx>>

(***************************************************************************)
(* Characters                                                              *)
(***************************************************************************)
GT == ">"
SP == " "
NL == "\n"
CR == "\r"
ZSP == "U+3000"
MARU == "U+3002"
KAGI == "U+300D"
COMMA == ","
TOUTEN == "U+3001"

\* str.isspace / the regex class [\s U+3000] restricted to the characters used
WhiteSpace == {SP, NL, CR, "\t", ZSP}

IsSpace(c) == c \in WhiteSpace

\* the characters excluded by the lookahead of the sentence-break pattern
ClosingChars == {KAGI, "U+300F", "U+FF09", "U+3011", "}", "]", ")", GT, "\"", "'"}

(***************************************************************************)
(* String primitives of the Python library, as the code uses them          *)
(***************************************************************************)
RECURSIVE LStrip(_)
LStrip(s) ==
    IF s = <<>> THEN s
    ELSE IF IsSpace(Head(s)) THEN LStrip(Tail(s)) ELSE s

RECURSIVE RStrip(_)
RStrip(s) ==
    IF s = <<>> THEN s
    ELSE IF IsSpace(s[Len(s)]) THEN RStrip(SubSeq(s, 1, Len(s) - 1)) ELSE s

\* str.strip()
Strip(s) == RStrip(LStrip(s))

\* str.splitlines(): "\n", "\r" and "\r\n" end a line; a final line without
\* terminator is kept only when it is not empty
RECURSIVE SplitLinesFrom(_, _, _, _)
SplitLinesFrom(s, i, cur, acc) ==
    IF i > Len(s) THEN (IF cur = <<>> THEN acc ELSE Append(acc, cur))
    ELSE IF s[i] = CR /\ i < Len(s) /\ s[i + 1] = NL
         THEN SplitLinesFrom(s, i + 2, <<>>, Append(acc, cur))
    ELSE IF s[i] \in {NL, CR}
         THEN SplitLinesFrom(s, i + 1, <<>>, Append(acc, cur))
    ELSE SplitLinesFrom(s, i + 1, Append(cur, s[i]), acc)

SplitLines(s) == SplitLinesFrom(s, 1, <<>>, <<>>)

StartsWith(s, p) == Len(p) <= Len(s) /\ SubSeq(s, 1, Len(p)) = p

\* kw in text
Contains(s, p) == \E i \in 1..(Len(s) - Len(p) + 1) : SubSeq(s, i, i + Len(p) - 1) = p

\* str.replace(old, new, 1): only the first occurrence is replaced
RECURSIVE Replace_FirstOnly(_, _, _)
Replace_FirstOnly(s, old, new) ==
    IF s = <<>> THEN <<>>
    ELSE IF StartsWith(s, old) THEN new \o SubSeq(s, Len(old) + 1, Len(s))
    ELSE <<Head(s)>> \o Replace_FirstOnly(Tail(s), old, new)

\* str.replace(old, new) for a non-empty old: left to right, non-overlapping
RECURSIVE Replace(_, _, _)
Replace(s, old, new) ==
    IF s = <<>> THEN <<>>
    ELSE IF StartsWith(s, old)
         THEN new \o Replace(SubSeq(s, Len(old) + 1, Len(s)), old, new)
    ELSE <<Head(s)>> \o Replace(Tail(s), old, new)

\* str.split(sep) for a one-character sep
RECURSIVE SplitOn(_, _, _, _)
SplitOn(s, sep, cur, acc) ==
    IF s = <<>> THEN Append(acc, cur)
    ELSE IF Head(s) = sep THEN SplitOn(Tail(s), sep, <<>>, Append(acc, cur))
    ELSE SplitOn(Tail(s), sep, Append(cur, Head(s)), acc)

\* ' '.join(lines)
RECURSIVE JoinSpace(_)
JoinSpace(lines) ==
    IF lines = <<>> THEN <<>>
    ELSE IF Len(lines) = 1 THEN lines[1]
    ELSE lines[1] \o <<SP>> \o JoinSpace(Tail(lines))

(***************************************************************************)
(* Steps of clean_quoted_email                                             *)
(***************************************************************************)
\* re.match(r'^\s*>+', line)
IsQuotedLine(line) == LET r == LStrip(line) IN r # <<>> /\ Head(r) = GT

\* the normalizer working on every line instead of the quoted ones
QuotedLines_Unfiltered(lines) == lines

\* [line for line in lines if re.match(r'^\s*>+', line)], line 87
RECURSIVE QuotedLines(_)
QuotedLines(lines) ==
    IF lines = <<>> THEN <<>>
    ELSE IF IsQuotedLine(Head(lines)) THEN <<Head(lines)>> \o QuotedLines(Tail(lines))
    ELSE QuotedLines(Tail(lines))

\* the marker pattern with a single '>' in place of '>+'
DropMarkers_One(s) == IF s # <<>> /\ Head(s) = GT THEN Tail(s) ELSE s

\* the run '>+' of the marker pattern
RECURSIVE DropMarkers(_)
DropMarkers(s) ==
    IF s # <<>> /\ Head(s) = GT THEN DropMarkers(Tail(s)) ELSE s

\* re.sub(r'^\s*>+\s?', '', line)
RemoveMarker(line) ==
    IF ~IsQuotedLine(line) THEN line
    ELSE LET r == DropMarkers(LStrip(line))
         IN IF r # <<>> /\ IsSpace(Head(r)) THEN Tail(r) ELSE r

CleanedLine(line) == Strip(RemoveMarker(line))

\* lines 94-98: strip the marker of every quoted line, drop the empty ones
RECURSIVE CleanedLines(_)
CleanedLines(quoted) ==
    IF quoted = <<>> THEN <<>>
    ELSE LET c == CleanedLine(Head(quoted))
         IN IF c # <<>> THEN <<c>> \o CleanedLines(Tail(quoted))
            ELSE CleanedLines(Tail(quoted))

\* first index >= i holding a non-whitespace character, Len(s)+1 when none
RECURSIVE SkipSpace(_, _)
SkipSpace(s, i) ==
    IF i > Len(s) THEN i
    ELSE IF IsSpace(s[i]) THEN SkipSpace(s, i + 1) ELSE i

\* the pattern without its lookahead: MARU and every whitespace after it match
BreakMatchEnd_NoLookahead(s, i) == SkipSpace(s, i + 1)

\* The match of  MARU [\s ZSP]* (?=[^closing])  starting at the MARU at index i:
\* the index just past the match, 0 when the pattern does not match there.  The
\* whitespace run is taken greedily; when the lookahead then fails (a closing
\* character or the end of the text) the regex engine gives back one whitespace
\* character, which itself satisfies the lookahead.
BreakMatchEnd(s, i) ==
    LET j == SkipSpace(s, i + 1)
    IN IF j <= Len(s) /\ s[j] \notin ClosingChars THEN j
       ELSE IF j - 1 > i THEN j - 1
       ELSE 0

\* re.sub(pattern, MARU + '\n', joined_text), line 107
RECURSIVE SentenceBreakFrom(_, _)
SentenceBreakFrom(s, i) ==
    IF i > Len(s) THEN <<>>
    ELSE IF s[i] = MARU /\ BreakMatchEnd(s, i) # 0
         THEN <<MARU, NL>> \o SentenceBreakFrom(s, BreakMatchEnd(s, i))
    ELSE <<s[i]>> \o SentenceBreakFrom(s, i + 1)

SentenceBreak(s) == SentenceBreakFrom(s, 1)

\* re.sub(r'[\s ZSP]+', '\n', joined_text), line 110
RECURSIVE WsToNewline(_)
WsToNewline(s) ==
    IF s = <<>> THEN <<>>
    ELSE IF IsSpace(Head(s)) THEN <<NL>> \o WsToNewline(LStrip(s))
    ELSE <<Head(s)>> \o WsToNewline(Tail(s))

\* for kw in keywords: if kw in text: text = text.replace(kw, '\n\n' + kw)
RECURSIVE InsertKeywordBreaks(_, _)
InsertKeywordBreaks(s, kws) ==
    IF kws = <<>> THEN s
    ELSE LET kw == Head(kws)
             t == IF Contains(s, kw) THEN Replace(s, kw, <<NL, NL>> \o kw) ELSE s
         IN InsertKeywordBreaks(t, Tail(kws))

\* number of NL characters at the start of s
RECURSIVE NewlineRun(_)
NewlineRun(s) ==
    IF s # <<>> /\ Head(s) = NL THEN 1 + NewlineRun(Tail(s)) ELSE 0

\* the normalizer with the blank-line collapsing of line 119 left out
CollapseNewlines_Skipped(s) == s

\* re.sub(r'\n{3,}', '\n\n', joined_text), line 119
RECURSIVE CollapseNewlines(_)
CollapseNewlines(s) ==
    IF s = <<>> THEN <<>>
    ELSE LET k == NewlineRun(s)
         IN IF k >= 3 THEN <<NL, NL>> \o CollapseNewlines(SubSeq(s, k + 1, Len(s)))
            ELSE IF k >= 1 THEN SubSeq(s, 1, k) \o CollapseNewlines(SubSeq(s, k + 1, Len(s)))
            ELSE <<Head(s)>> \o CollapseNewlines(Tail(s))

(***************************************************************************)
(* EmailCleanerConfig                                                      *)
(***************************************************************************)
\* no configuration file on disk
NoFile == [exists |-> FALSE, list |-> <<>>]

\* a configuration file whose [keywords] list is l
FileWith(l) == [exists |-> TRUE, list |-> l]

\* the object before _load_config has run
NotLoaded == [loaded |-> FALSE, list |-> <<>>, raises |-> FALSE]

\* get_keywords has not been called
NoResult == [called |-> FALSE, value |-> <<>>]

\* the value _create_default_config stores under [keywords] list (line 37):
\* U+8A18 U+3001 U+4EF6 U+540D U+3001 U+5B9B U+5148 U+3001 U+5DEE U+51FA U+4EBA
DefaultList ==
    <<"U+8A18", TOUTEN, "U+4EF6", "U+540D", TOUTEN, "U+5B9B", "U+5148", TOUTEN,
      "U+5DEE", "U+51FA", "U+4EBA">>

\* the configuration _create_default_config builds and writes to the file
DefaultConfig == [loaded |-> TRUE, list |-> DefaultList, raises |-> FALSE]

\* [kw.strip() for kw in parts if kw.strip()]
RECURSIVE StripNonEmpty(_)
StripNonEmpty(parts) ==
    IF parts = <<>> THEN <<>>
    ELSE LET k == Strip(Head(parts))
         IN IF k # <<>> THEN <<k>> \o StripNonEmpty(Tail(parts))
            ELSE StripNonEmpty(Tail(parts))

\* get_keywords: the separator of split is the ASCII comma
KeywordSeparator == COMMA

\* EmailCleanerConfig.get_keywords, for a lookup that does not raise
GetKeywords(cfg) == StripNonEmpty(SplitOn(cfg.list, KeywordSeparator, <<>>, <<>>))

(***************************************************************************)
(* EmailCleaner.clean_quoted_email                                         *)
(***************************************************************************)
\* what a call leaves behind: the returned text, the return statement taken,
\* the text joined at line 104 (empty on the early returns) and the number of
\* logger.warning / logger.error calls made
CallResult(ret, path, joined, warnings, errors) ==
    [ret |-> ret, path |-> path, joined |-> joined,
     warnings |-> warnings, errors |-> errors]

\* an except clause that trims the text it returns, as line 91 does
ErrorFallback_Trimmed(text) == Strip(text)

\* line 125: what the except clause returns for the input text
ErrorFallback(text) == text

\* line 91: what is returned when no line is quoted
UnquotedResult(text) == Strip(text)

\* lines 104-119, given the keywords: the text before the final strip()
BeforeStrip(joined, keywords) ==
    CollapseNewlines(InsertKeywordBreaks(WsToNewline(SentenceBreak(joined)), keywords))

\* the normalizer returning joined_text without the strip() of line 121
Transform_NoStrip(joined, keywords) == BeforeStrip(joined, keywords)

\* lines 104-121, given the keywords
Transform(joined, keywords) ==
    Strip(CollapseNewlines(
        InsertKeywordBreaks(WsToNewline(SentenceBreak(joined)), keywords)))

CleanQuotedEmail(text, cfg) ==
    IF Strip(text) = <<>> THEN CallResult(<<>>, "empty", <<>>, 0, 0)
    ELSE LET quoted == QuotedLines(SplitLines(text))
             cleaned == CleanedLines(quoted)
             joined == JoinSpace(cleaned)
         IN IF quoted = <<>>
            THEN CallResult(UnquotedResult(text), "unquoted", <<>>, 1, 0)
            ELSE IF cleaned = <<>>
            THEN CallResult(<<>>, "stripped_empty", <<>>, 0, 0)
            ELSE IF cfg.raises
            THEN CallResult(ErrorFallback(text), "error", joined, 0, 1)
            ELSE CallResult(Transform(joined, GetKeywords(cfg)),
                            "transformed", joined, 0, 0)

\* one call of clean_quoted_email, on the next input
Clean ==
    /\ config.loaded
    /\ Len(outs) < Len(inputs)
    /\ outs' = Append(outs, CleanQuotedEmail(inputs[Len(outs) + 1], config))
    /\ UNCHANGED <<cfgVars, inputs, batchVars>>

(***************************************************************************)
(* Inputs                                                                  *)
(***************************************************************************)
\* all texts of at most n characters of the set chars
TextsUpTo(chars, n) == UNION {[1..k -> chars] : k \in 0..n}

\* a directory without text files: no name is mapped to a text
NoFiles == [n \in {} |-> <<>>]

BatchIdle ==
    /\ pc = "idle"
    /\ inputDir = NoFiles
    /\ outputDir = NoFiles
    /\ txt_files = <<>>
    /\ attempted = <<>>
    /\ succeeded = {}
    /\ processed_count = 0
    /\ error_count = 0
    /\ confirmed = FALSE
    /\ deleted = {}
    /\ delIdx = 0

\* a cleaner built on a configuration whose list is l and whose lookup raises iff r
Constructed(l, r) ==
    /\ configFile = FileWith(l)
    /\ config = [loaded |-> TRUE, list |-> l, raises |-> r]
    /\ kwResult = NoResult

MaxLen == 5

MainChars == {GT, SP, NL, CR, ZSP, "a"}

MainLists == {<<>>, <<"a">>}

Init ==
    /\ \E l \in MainLists, r \in BOOLEAN : Constructed(l, r)
    /\ inputs \in {<<t>> : t \in TextsUpTo(MainChars, MaxLen)}
    /\ outs = <<>>
    /\ BatchIdle

Next == Clean

Spec == Init /\ [][Next]_vars

(***************************************************************************)
(* Properties of the returned text                                         *)
(***************************************************************************)
IsLineBreak(c) == c \in {NL, CR}

\* s holds n consecutive line breaks somewhere
HasBreakRun(s, n) ==
    \E i \in 1..(Len(s) - n + 1) : \A k \in 0..(n - 1) : IsLineBreak(s[i + k])

\* s neither starts nor ends with a whitespace character
NoOuterSpace(s) == s = <<>> \/ (~IsSpace(s[1]) /\ ~IsSpace(s[Len(s)]))

Calls == 1..Len(outs)

\* the call reaches the keyword lookup of line 113
ReachesLookup(text) == CleanedLines(QuotedLines(SplitLines(text))) # <<>>

\* C2 as stated: on the empty-input, no-quoted-lines and transformed return
\* paths the returned text holds no run of three or more line breaks.
C2_NoTripleBreak_AllPaths ==
    \A i \in Calls :
        outs[i].path \in {"empty", "unquoted", "stripped_empty", "transformed"}
            => ~HasBreakRun(outs[i].ret, 3)

\* C2 amended: when the input is blank or holds at least one quoted line (every
\* return path but the no-quoted-lines one and the error fallback), the
\* returned text holds no run of three or more line breaks.
C2_NoTripleBreak_Quoted ==
    \A i \in Calls :
        outs[i].path \in {"empty", "stripped_empty", "transformed"}
            => ~HasBreakRun(outs[i].ret, 3)

\* a transformed call whose text held three line breaks in a row before line 119
C2_Witness ==
    \E i \in Calls :
        /\ outs[i].path = "transformed"
        /\ HasBreakRun(InsertKeywordBreaks(WsToNewline(SentenceBreak(outs[i].joined)),
                                           GetKeywords(config)), 3)
        /\ HasBreakRun(outs[i].ret, 2)

\* C5: a call whose keyword lookup raises still returns: it returns the input
\* text exactly as given (untrimmed, untransformed) and logs one error; a call
\* in which nothing raises logs no error.
C5_ErrorFallback ==
    \A i \in Calls :
        /\ (config.raises /\ ReachesLookup(inputs[i]))
              => (outs[i].ret = inputs[i] /\ outs[i].errors = 1 /\ outs[i].warnings = 0)
        /\ ~(config.raises /\ ReachesLookup(inputs[i])) => outs[i].errors = 0

\* a failed call that returned a text with outer whitespace and a quote marker
C5_Witness ==
    \E i \in Calls :
        /\ outs[i].path = "error"
        /\ outs[i].ret = inputs[i]
        /\ ~NoOuterSpace(inputs[i])
        /\ outs[i].ret # outs[i].joined

\* C6 as stated: on every return path, the error fallback included, the
\* returned text has no leading and no trailing whitespace.
C6_Trimmed_AllPaths == \A i \in Calls : NoOuterSpace(outs[i].ret)

\* C6 amended: on every return path except the error fallback (which returns
\* the input untrimmed) the returned text has no leading and no trailing
\* whitespace.
C6_Trimmed_NoError ==
    \A i \in Calls : outs[i].path # "error" => NoOuterSpace(outs[i].ret)

\* a transformed call whose text started with a line break before line 121
C6_Witness ==
    \E i \in Calls :
        /\ outs[i].path = "transformed"
        /\ ~NoOuterSpace(BeforeStrip(outs[i].joined, GetKeywords(config)))
        /\ outs[i].ret # <<>>

(***************************************************************************)
(* Keyword paragraph breaks (C3)                                           *)
(***************************************************************************)
\* the value of [keywords] list that lists the keywords kws
RECURSIVE ListOf(_)
ListOf(kws) ==
    IF kws = <<>> THEN <<>>
    ELSE IF Len(kws) = 1 THEN kws[1]
    ELSE kws[1] \o <<COMMA>> \o ListOf(Tail(kws))

MaxBody == 4

MaxKeywords == 2

KwChars == {"a", "b", MARU}

KwPool == {<<"a">>, <<"b">>, <<"a", "a">>, <<"a", "b">>, <<"b", "a">>}

\* one quoted line: a marker and a body
QuotedTexts(chars, n) == {<<GT>> \o b : b \in TextsUpTo(chars, n)}

InitKw ==
    /\ \E kws \in TextsUpTo(KwPool, MaxKeywords) : Constructed(ListOf(kws), FALSE)
    /\ inputs \in {<<t>> : t \in QuotedTexts(KwChars, MaxBody)}
    /\ outs = <<>>
    /\ BatchIdle

NextKw == Clean

SpecKw == InitKw /\ [][NextKw]_vars

\* the indices at which kw occurs in s
Occurrences(s, kw) ==
    {i \in 1..(Len(s) - Len(kw) + 1) : SubSeq(s, i, i + Len(kw) - 1) = kw}

\* exactly two line breaks stand right before index i of s
AfterBlankLine(s, i) ==
    /\ i >= 3
    /\ s[i - 1] = NL
    /\ s[i - 2] = NL
    /\ (i >= 4 => s[i - 3] # NL)

\* two occurrences of kw can overlap: a proper prefix of kw is also its suffix
SelfOverlapping(kw) ==
    \E k \in 1..(Len(kw) - 1) : SubSeq(kw, 1, k) = SubSeq(kw, Len(kw) - k + 1, Len(kw))

HasSpace(kw) == \E k \in 1..Len(kw) : IsSpace(kw[k])

\* the keywords the transformation of this configuration works with
Keywords == GetKeywords(config)

\* every occurrence of kw in every transformed text stands at the very start or
\* right after exactly two line breaks
KeywordPlaced(kw) ==
    \A i \in Calls :
        outs[i].path = "transformed" =>
            \A at \in Occurrences(outs[i].ret, kw) :
                at = 1 \/ AfterBlankLine(outs[i].ret, at)

\* C3 as stated: in the text returned for an input with a non-empty quoted
\* line, every occurrence of every keyword, self-overlapping ones included,
\* stands at the very start or right after exactly two line breaks.
C3_EveryOccurrence == \A k \in 1..Len(Keywords) : KeywordPlaced(Keywords[k])

NonOverlappingKeyword(kw) == ~SelfOverlapping(kw) /\ ~HasSpace(kw)

\* C3 amended: in the text returned for an input with a non-empty quoted line,
\* every occurrence of every keyword that holds no whitespace and cannot
\* overlap itself stands at the very start or right after exactly two line
\* breaks.
C3_NonOverlapping ==
    \A k \in 1..Len(Keywords) :
        NonOverlappingKeyword(Keywords[k]) => KeywordPlaced(Keywords[k])

\* a returned text in which a keyword that cannot overlap itself occurs twice
\* beyond the start, once of them after a sentence break
C3_Witness ==
    \E i \in Calls :
        /\ outs[i].path = "transformed"
        /\ \E k \in 1..Len(GetKeywords(config)) :
              LET kw == GetKeywords(config)[k]
                  occ == Occurrences(outs[i].ret, kw)
              IN /\ NonOverlappingKeyword(kw)
                 /\ Cardinality(occ \ {1}) >= 2
                 /\ \E at \in occ : at >= 4 /\ outs[i].ret[at - 3] = MARU

(***************************************************************************)
(* Sentence breaks (C4)                                                    *)
(***************************************************************************)
BreakChars == {MARU, KAGI, SP, ZSP, "a"}

BreakLists == {<<>>, <<"a">>, <<KAGI>>}

InitBreak ==
    /\ \E l \in BreakLists : Constructed(l, FALSE)
    /\ inputs \in {<<t>> : t \in QuotedTexts(BreakChars, MaxBody)}
    /\ outs = <<>>
    /\ BatchIdle

NextBreak == Clean

SpecBreak == InitBreak /\ [][NextBreak]_vars

CountMaru(s) == Cardinality({i \in 1..Len(s) : s[i] = MARU})

\* the index of the k-th full stop of s
NthMaru(s, k) ==
    CHOOSE i \in 1..Len(s) :
        s[i] = MARU /\ Cardinality({j \in 1..i : s[j] = MARU}) = k

\* a line break directly follows the k-th full stop of s
BreakFollows(s, k) ==
    LET m == NthMaru(s, k) IN m < Len(s) /\ s[m + 1] = NL

\* the first non-whitespace character after index i of s
NextNonSpace(s, i) == s[CHOOSE j \in (i + 1)..Len(s) :
                            ~IsSpace(s[j]) /\ \A h \in (i + 1)..(j - 1) : IsSpace(s[h])]

\* C4 as stated: for every full stop of the joined text that is not its last
\* character, a line break directly follows it in the returned text if and
\* only if the next non-whitespace character after it is not a closing
\* character, whether or not whitespace lay between them.
C4_BreakIffNextNonSpaceOpen ==
    \A i \in Calls :
        outs[i].path = "transformed" =>
            \A k \in 1..CountMaru(outs[i].joined) :
                LET at == NthMaru(outs[i].joined, k)
                IN at < Len(outs[i].joined) =>
                      (BreakFollows(outs[i].ret, k)
                          <=> NextNonSpace(outs[i].joined, at) \notin ClosingChars)

NoKeywordOpensWithClosing ==
    \A k \in 1..Len(Keywords) : Keywords[k][1] \notin ClosingChars

\* C4 amended: when no keyword begins with a closing character, for every full
\* stop of the joined text that is not its last character, a line break
\* directly follows it in the returned text if and only if the character
\* immediately after it in the joined text is not a closing character; a full
\* stop separated from a closing character by whitespace is followed by a line
\* break.
C4_BreakIffNextCharOpen ==
    \A i \in Calls :
        (outs[i].path = "transformed" /\ NoKeywordOpensWithClosing) =>
            \A k \in 1..CountMaru(outs[i].joined) :
                LET at == NthMaru(outs[i].joined, k)
                IN at < Len(outs[i].joined) =>
                      (BreakFollows(outs[i].ret, k)
                          <=> outs[i].joined[at + 1] \notin ClosingChars)

\* a returned text in which a line break follows a full stop that whitespace
\* separated from a closing character
C4_Witness ==
    \E i \in Calls :
        /\ outs[i].path = "transformed"
        /\ NoKeywordOpensWithClosing
        /\ \E k \in 1..CountMaru(outs[i].joined) :
              LET at == NthMaru(outs[i].joined, k)
              IN /\ at + 1 < Len(outs[i].joined)
                 /\ IsSpace(outs[i].joined[at + 1])
                 /\ NextNonSpace(outs[i].joined, at) = KAGI
                 /\ BreakFollows(outs[i].ret, k)

(***************************************************************************)
(* Quote depth and indentation (C7)                                        *)
(***************************************************************************)
MaxIndent == 1

MaxDepth == 2

MaxContent == 3

DepthChars == {GT, SP, "a"}

\* n copies of the character c
Repeat(c, n) == [k \in 1..n |-> c]

\* a quoted line: w spaces, a run of n markers, one space if sp, the content c
MarkedLine(w, n, sp, c) ==
    Repeat(SP, w) \o Repeat(GT, n) \o (IF sp THEN <<SP>> ELSE <<>>) \o c

\* the content of a line starts where its marker run (and the one space) ends,
\* so a content that starts with a marker needs the space before it
ContentFits(sp, c) == IF sp \/ c = <<>> THEN TRUE ELSE Head(c) # GT

\* a second quoted line, the same in both inputs
DepthTails == {<<>>, <<NL, GT, "a">>}

InitDepth ==
    /\ \E r \in BOOLEAN : Constructed(<<"a">>, r)
    /\ \E c \in TextsUpTo(DepthChars, MaxContent), tail \in DepthTails,
          w1, w2 \in 0..MaxIndent, n1, n2 \in 1..MaxDepth, sp1, sp2 \in BOOLEAN :
          /\ <<w1, n1, sp1>> # <<w2, n2, sp2>>
          /\ ContentFits(sp1, c)
          /\ ContentFits(sp2, c)
          /\ inputs = <<MarkedLine(w1, n1, sp1, c) \o tail,
                        MarkedLine(w2, n2, sp2, c) \o tail>>
    /\ outs = <<>>
    /\ BatchIdle

NextDepth == Clean

SpecDepth == InitDepth /\ [][NextDepth]_vars

CountGT(s) == Cardinality({i \in 1..Len(s) : s[i] = GT})

\* the number of markers in the leading run of a line
MarkerRun(line) == Len(LStrip(line)) - Len(DropMarkers(LStrip(line)))

RECURSIVE MarkerRuns(_)
MarkerRuns(lines) ==
    IF lines = <<>> THEN 0 ELSE MarkerRun(Head(lines)) + MarkerRuns(Tail(lines))

\* no marker of a leading run of text is left in ret
MarkersGone(text, ret) ==
    CountGT(ret) <= CountGT(text) - MarkerRuns(SelectSeq(SplitLines(text), IsQuotedLine))

SameAndUnmarked ==
    /\ outs[1].ret = outs[2].ret
    /\ MarkersGone(inputs[1], outs[1].ret)
    /\ MarkersGone(inputs[2], outs[2].ret)

MaxFilterLen == 4

FilterChars == {GT, "a", NL}

\* the quoted lines of a text, in order
QuotedPart(text) == SelectSeq(SplitLines(text), IsQuotedLine)

\* two texts with the same quoted lines, at least one, and different unquoted
\* lines
InitFilter ==
    /\ \E r \in BOOLEAN : Constructed(<<"a">>, r)
    /\ \E t1, t2 \in TextsUpTo(FilterChars, MaxFilterLen) :
          /\ QuotedPart(t1) # <<>>
          /\ QuotedPart(t1) = QuotedPart(t2)
          /\ SplitLines(t1) # SplitLines(t2)
          /\ inputs = <<t1, t2>>
    /\ outs = <<>>
    /\ BatchIdle

NextFilter == Clean

SpecFilter == InitFilter /\ [][NextFilter]_vars

LoadConfig ==
    /\ ~config.loaded
    /\ IF configFile.exists
       THEN /\ config' = [loaded |-> TRUE, list |-> configFile.list, raises |-> FALSE]
            /\ UNCHANGED configFile
       ELSE /\ config' = DefaultConfig
            /\ configFile' = FileWith(DefaultList)
    /\ UNCHANGED <<kwResult, cleanVars, batchVars>>

\* a call of get_keywords, lines 53-55
CallGetKeywords ==
    /\ config.loaded
    /\ ~kwResult.called
    /\ kwResult' = [called |-> TRUE, value |-> GetKeywords(config)]
    /\ UNCHANGED <<configFile, config, cleanVars, batchVars>>

MaxCfgLen == 3

CfgChars == {COMMA, TOUTEN, SP, "a"}

InitConfig ==
    /\ configFile \in {NoFile} \cup {FileWith(l) : l \in TextsUpTo(CfgChars, MaxCfgLen)}
    /\ config = NotLoaded
    /\ kwResult = NoResult
    /\ inputs = <<>>
    /\ outs = <<>>
    /\ BatchIdle

NextConfig == LoadConfig \/ CallGetKeywords

SpecConfig == InitConfig /\ [][NextConfig]_vars

\* the four terms U+8A18, U+4EF6 U+540D, U+5B9B U+5148, U+5DEE U+51FA U+4EBA
FourTerms ==
    << <<"U+8A18">>, <<"U+4EF6", "U+540D">>, <<"U+5B9B", "U+5148">>,
       <<"U+5DEE", "U+51FA", "U+4EBA">> >>

\* C1: once the default configuration has been created, get_keywords returns
\* exactly the four separate default terms, in order.
C1_DefaultKeywords ==
    (kwResult.called /\ config.list = DefaultList) => kwResult.value = FourTerms

(***************************************************************************)
(* EmailCleaner.process_all_files (C8, C10)                                *)
(***************************************************************************)
MaxFiles == 2

FileNames == 1..MaxFiles

BatchTexts == {<<GT, SP, "a">>, <<SP, "a">>}

\* the sequences that list every element of the set S once
Orderings(S) ==
    {f \in [1..Cardinality(S) -> S] : \A i, j \in 1..Cardinality(S) : f[i] = f[j] => i = j}

\* process_single_file counting a failed write as nothing at all
ErrorsAfter_WriteUncounted(n, outcome) == IF outcome = "read_error" THEN n + 1 ELSE n

\* lines 197-207: every except clause falls through to error_count += 1
ErrorsAfter(n, outcome) == IF outcome = "ok" THEN n ELSE n + 1

\* lines 194-195
ProcessedAfter(n, outcome) == IF outcome = "ok" THEN n + 1 ELSE n

\* lines 286-287
Start ==
    /\ pc = "start"
    /\ processed_count' = 0
    /\ error_count' = 0
    /\ pc' = "create_dirs"
    /\ UNCHANGED <<cfgVars, cleanVars, inputDir, outputDir, txt_files, attempted,
                   succeeded, confirmed, deleted, delIdx>>

\* lines 289-291 with create_directories, lines 127-146
CreateDirectories ==
    /\ pc = "create_dirs"
    /\ \E ok \in BOOLEAN : pc' = IF ok THEN "find" ELSE "done"
    /\ UNCHANGED <<cfgVars, cleanVars, inputDir, outputDir, txt_files, attempted,
                   succeeded, processed_count, error_count, confirmed, deleted, delIdx>>

\* lines 293-297 with find_text_files, lines 148-165: the directory is listed
\* in some order, or the listing fails and nothing is found
FindTextFiles ==
    /\ pc = "find"
    /\ \E found \in Orderings(DOMAIN inputDir) \cup {<<>>} :
          /\ txt_files' = found
          /\ pc' = IF found = <<>> THEN "done" ELSE "backup"
    /\ UNCHANGED <<cfgVars, cleanVars, inputDir, outputDir, attempted, succeeded,
                   processed_count, error_count, confirmed, deleted, delIdx>>

\* lines 299-304: the result of backup_original_files is not looked at
Backup ==
    /\ pc = "backup"
    /\ pc' = "loop"
    /\ UNCHANGED <<cfgVars, cleanVars, inputDir, outputDir, txt_files, attempted,
                   succeeded, processed_count, error_count, confirmed, deleted, delIdx>>

\* one round of the loop of lines 306-308: process_single_file, lines 167-207
ProcessSingleFile ==
    /\ pc = "loop"
    /\ Len(attempted) < Len(txt_files)
    /\ LET filename == txt_files[Len(attempted) + 1]
       IN /\ attempted' = Append(attempted, filename)
          /\ \E outcome \in {"ok", "read_error", "write_error"} :
                /\ processed_count' = ProcessedAfter(processed_count, outcome)
                /\ error_count' = ErrorsAfter(error_count, outcome)
                /\ IF outcome = "ok"
                   THEN /\ outputDir' =
                              [n \in DOMAIN outputDir \cup {filename} |->
                                  IF n = filename
                                  THEN CleanQuotedEmail(inputDir[filename], config).ret
                                  ELSE outputDir[n]]
                        /\ succeeded' = succeeded \cup {filename}
                   ELSE UNCHANGED <<outputDir, succeeded>>
    /\ UNCHANGED <<cfgVars, cleanVars, pc, inputDir, txt_files, confirmed, deleted, delIdx>>

\* lines 310-314, 319-320: confirm_deletion is asked only when a file succeeded
ConfirmDeletion ==
    /\ pc = "loop"
    /\ Len(attempted) = Len(txt_files)
    /\ IF processed_count > 0
       THEN \E answer \in BOOLEAN :
               /\ confirmed' = answer
               /\ pc' = IF answer THEN "delete" ELSE "done"
       ELSE /\ pc' = "done"
            /\ UNCHANGED confirmed
    /\ delIdx' = 1
    /\ UNCHANGED <<cfgVars, cleanVars, inputDir, outputDir, txt_files, attempted,
                   succeeded, processed_count, error_count, deleted>>

\* one round of the loop of delete_original_files, lines 266-270, called with
\* txt_files (line 315): the file is unlinked, or unlink raises and the method
\* returns (lines 275-277)
DeleteOne ==
    /\ pc = "delete"
    /\ delIdx <= Len(txt_files)
    /\ LET filename == txt_files[delIdx]
       IN \E ok \in BOOLEAN :
             IF ok
             THEN /\ inputDir' = [n \in DOMAIN inputDir \ {filename} |-> inputDir[n]]
                  /\ deleted' = deleted \cup {filename}
                  /\ delIdx' = delIdx + 1
                  /\ UNCHANGED pc
             ELSE /\ pc' = "done"
                  /\ UNCHANGED <<inputDir, deleted, delIdx>>
    /\ UNCHANGED <<cfgVars, cleanVars, outputDir, txt_files, attempted, succeeded,
                   processed_count, error_count, confirmed>>

\* lines 272-273, 316, 322
DeleteDone ==
    /\ pc = "delete"
    /\ delIdx > Len(txt_files)
    /\ pc' = "done"
    /\ UNCHANGED <<cfgVars, cleanVars, inputDir, outputDir, txt_files, attempted,
                   succeeded, processed_count, error_count, confirmed, deleted, delIdx>>

\* a cleaner on a directory of up to MaxFiles text files
InitBatch ==
    /\ \E r \in BOOLEAN : Constructed(<<"a">>, r)
    /\ inputs = <<>>
    /\ outs = <<>>
    /\ pc = "start"
    /\ \E S \in SUBSET FileNames : inputDir \in [S -> BatchTexts]
    /\ outputDir = NoFiles
    /\ txt_files = <<>>
    /\ attempted = <<>>
    /\ succeeded = {}
    /\ processed_count = 0
    /\ error_count = 0
    /\ confirmed = FALSE
    /\ deleted = {}
    /\ delIdx = 0

NextBatch ==
    \/ Start
    \/ CreateDirectories
    \/ FindTextFiles
    \/ Backup
    \/ ProcessSingleFile
    \/ ConfirmDeletion
    \/ DeleteOne
    \/ DeleteDone

SpecBatch == InitBatch /\ [][NextBatch]_vars

\* C8: every attempt is counted once, as a success or as an error, and when
\* process_all_files returns every discovered file has been attempted once, in
\* discovery order: processed_count + error_count is the number of
\* discovered files (0 + 0 when nothing was discovered).
C8_EveryFileCountedOnce ==
    /\ pc # "start" =>
          /\ processed_count + error_count = Len(attempted)
          /\ processed_count = Cardinality(succeeded)
          /\ \A i \in 1..Len(attempted) : attempted[i] = txt_files[i]
    /\ pc = "done" =>
          /\ attempted = txt_files
          /\ processed_count + error_count = Len(txt_files)

\* a finished run with a success, a failed read or write, and a transform
\* that failed inside a successful attempt
C8_Witness ==
    /\ pc = "done"
    /\ processed_count >= 1
    /\ error_count >= 1
    /\ config.raises
    /\ Len(txt_files) = processed_count + error_count

\* C10: a file is deleted only after every discovered file has been
\* attempted, only if the user confirmed, and only if that file itself was
\* processed successfully.
C10_DeletesOnlyProcessed ==
    /\ deleted # {} => (confirmed /\ attempted = txt_files)
    /\ deleted \subseteq succeeded

====
